---- MODULE Spec2Model ----
(***************************************************************************)
(* Model of three parts of octopus-network/ibc-rs:                         *)
(*   - the GRANDPA light client (modules/src/ics10_grandpa/client_def.rs)  *)
(*     driven through the client lifecycle of ICS02,                       *)
(*   - the ICS02 client events and their conversion to abci events         *)
(*     (crates/ibc/src/core/ics02_client/events.rs),                       *)
(*   - the `query connections` command of the relayer CLI                  *)
(*     (relayer-cli/src/commands/query/connections.rs).                    *)
(* Each part has its own specification: Spec, EventSpec, CliSpec.          *)
(***************************************************************************)
EXTENDS Integers, Sequences, FiniteSets, TLC

VARIABLES
    client_state,      \* the stored ClientState of the one client, or NoClient
    consensus_states,  \* stored ConsensusStates, a function Height -> ConsensusState
    result,            \* what the last ClientDef call was given and what it returned
    event,             \* the ICS02 event value last constructed, or NoEvent
    abci,              \* the abci::Event it was converted to, or NoEvent
    pc,                \* position of QueryConnectionsCmd::run
    env,               \* what the command's collaborators will answer in this run
    out                \* what the command has printed / how it ended

client_vars == <<client_state, consensus_states, result>>
event_vars == <<event, abci>>
cli_vars == <<pc, env, out>>
vars == <<client_state, consensus_states, result, event, abci, pc, env, out>>

----------------------------------------------------------------------------
(* Bounds *)

\* revision heights of the lifecycle model are 1..MaxHeight
MaxHeight == 2
\* longest consensus_heights list of an UpdateClient event
MaxHeights == 2
\* longest list of connections a chain returns
MaxConnections == 2

----------------------------------------------------------------------------
(* Height: (revision_number, revision_height), ordered lexicographically *)

Height(n, h) == [revision_number |-> n, revision_height |-> h]

\* two revisions, so that the order is decided by the revision number first
Revisions == {0, 1}

Heights == [revision_number : Revisions, revision_height : 1..MaxHeight]

\* a > b in the derived lexicographic order of Height
HeightGT(a, b) ==
    \/ a.revision_number > b.revision_number
    \/ /\ a.revision_number = b.revision_number
       /\ a.revision_height > b.revision_height

----------------------------------------------------------------------------
(* GRANDPA client: ics10_grandpa/client_def.rs *)

Roots == {"r1", "r2"}
Values == {"v1"}

\* Header: the untrusted update payload; it claims a height and a root
Headers == [height : Heights, root : Roots]

\* ClientState: latest trusted height and frozen/active status
ClientStates == [latest_height : Heights, frozen : BOOLEAN]

ConsensusStates == [root : Roots]

\* a commitment proof: the root it opens and the value it attests there
Absent == "absent"
Proofs == [root : Roots, value : Values \cup {Absent}]

NoClient == [none |-> TRUE]
NoResult == [op |-> "none"]

Ok(v) == [ok |-> TRUE, value |-> v]
Err(e) == [ok |-> FALSE, error |-> e]

\* ClientState::with_header: the client state advanced to the header's height
with_header(cs, header) == [cs EXCEPT !.latest_height = header.height]

\* ConsensusState::from(header)
ConsensusStateFrom(header) == [root |-> header.root]

\* A slip of check_header_and_update_state: the consensus state of the pair is
\* not the one of the header the client state was advanced with.
check_header_and_update_state_stale(cs, header) ==
    Ok(<<with_header(cs, header),
         [root |-> CHOOSE r \in Roots : r # header.root]>>)

\* GrandpaClient::check_header_and_update_state: the height check is commented
\* out, every header is accepted
check_header_and_update_state(cs, header) ==
    Ok(<<with_header(cs, header), ConsensusStateFrom(header)>>)

\* The proof-verification operations: every argument is ignored
verify_client_consensus_state(cs, height, proof, expected) == Ok(<<>>)
verify_connection_state(cs, height, proof, expected) == Ok(<<>>)
verify_channel_state(cs, height, proof, expected) == Ok(<<>>)
verify_client_full_state(cs, height, proof, expected) == Ok(<<>>)
verify_packet_data(cs, height, proof, expected) == Ok(<<>>)
verify_packet_acknowledgement(cs, height, proof, expected) == Ok(<<>>)
verify_next_sequence_recv(cs, height, proof, expected) == Ok(<<>>)
verify_packet_receipt_absence(cs, height, proof) == Ok(<<>>)

\* A slip of verify_upgrade_and_update_state: the upgrade hands back a fresh,
\* unfrozen client state instead of the one it was given.
verify_upgrade_and_update_state_unfrozen(cs, cons, proof_client, proof_cons) ==
    Ok(<<[cs EXCEPT !.frozen = FALSE], cons>>)

\* GrandpaClient::verify_upgrade_and_update_state: returns what it was given
verify_upgrade_and_update_state(cs, cons, proof_client, proof_cons) ==
    Ok(<<cs, cons>>)

----------------------------------------------------------------------------
(* Client lifecycle: the host stores what the ClientDef calls return *)

\* store_client_result: the returned pair is stored, the consensus state under
\* the returned client state's latest height
StoreClientResult(pair) ==
    /\ client_state' = pair[1]
    /\ consensus_states' = (pair[1].latest_height :> pair[2]) @@ consensus_states

\* whether `proof` attests `expected` under the root committed at `height`
ProofAttests(height, proof, expected) ==
    /\ height \in DOMAIN consensus_states
    /\ proof.root = consensus_states[height].root
    /\ proof.value = expected

\* CreateClient: Uninitialized -> Active with an initial pair
CreateClient ==
    /\ client_state = NoClient
    /\ \E h \in Heights, cons \in ConsensusStates :
          StoreClientResult(<<[latest_height |-> h, frozen |-> FALSE], cons>>)
    /\ result' = [op |-> "create_client"]
    /\ UNCHANGED <<event_vars, cli_vars>>

\* UpdateClient: check_header_and_update_state on the stored client state
UpdateClient ==
    /\ client_state # NoClient
    /\ \E header \in Headers :
          LET ret == check_header_and_update_state(client_state, header) IN
          /\ result' = [op |-> "check_header_and_update_state",
                        before |-> client_state, header |-> header, ret |-> ret]
          /\ IF ret.ok
                THEN StoreClientResult(ret.value)
                ELSE UNCHANGED <<client_state, consensus_states>>
    /\ UNCHANGED <<event_vars, cli_vars>>

\* ClientMisbehaviour: Active -> Frozen
ClientMisbehaviour ==
    /\ client_state # NoClient
    /\ ~client_state.frozen
    /\ client_state' = [client_state EXCEPT !.frozen = TRUE]
    /\ result' = [op |-> "client_misbehaviour"]
    /\ UNCHANGED <<consensus_states, event_vars, cli_vars>>

\* UpgradeClient: verify_upgrade_and_update_state on the stored pair
UpgradeClient ==
    /\ client_state # NoClient
    /\ \E proof_client \in Proofs, proof_cons \in Proofs :
          LET cons == consensus_states[client_state.latest_height]
              ret == verify_upgrade_and_update_state(client_state, cons,
                                                     proof_client, proof_cons) IN
          /\ result' = [op |-> "verify_upgrade_and_update_state",
                        before |-> client_state, cons |-> cons, ret |-> ret]
          /\ IF ret.ok
                THEN StoreClientResult(ret.value)
                ELSE UNCHANGED <<client_state, consensus_states>>
    /\ UNCHANGED <<event_vars, cli_vars>>

\* a proof-verification call: nothing is stored, the caller sees the result
Verified(op, attests, ret) ==
    /\ result' = [op |-> op, before |-> client_state, attests |-> attests,
                  ret |-> ret]
    /\ UNCHANGED <<client_state, consensus_states, event_vars, cli_vars>>

VerifyClientConsensusState ==
    /\ client_state # NoClient
    /\ \E height \in Heights, proof \in Proofs, expected \in Values :
          Verified("verify_client_consensus_state",
                   ProofAttests(height, proof, expected),
                   verify_client_consensus_state(client_state, height, proof, expected))

VerifyConnectionState ==
    /\ client_state # NoClient
    /\ \E height \in Heights, proof \in Proofs, expected \in Values :
          Verified("verify_connection_state",
                   ProofAttests(height, proof, expected),
                   verify_connection_state(client_state, height, proof, expected))

VerifyChannelState ==
    /\ client_state # NoClient
    /\ \E height \in Heights, proof \in Proofs, expected \in Values :
          Verified("verify_channel_state",
                   ProofAttests(height, proof, expected),
                   verify_channel_state(client_state, height, proof, expected))

VerifyClientFullState ==
    /\ client_state # NoClient
    /\ \E height \in Heights, proof \in Proofs, expected \in Values :
          Verified("verify_client_full_state",
                   ProofAttests(height, proof, expected),
                   verify_client_full_state(client_state, height, proof, expected))

VerifyPacketData ==
    /\ client_state # NoClient
    /\ \E height \in Heights, proof \in Proofs, expected \in Values :
          Verified("verify_packet_data",
                   ProofAttests(height, proof, expected),
                   verify_packet_data(client_state, height, proof, expected))

VerifyPacketAcknowledgement ==
    /\ client_state # NoClient
    /\ \E height \in Heights, proof \in Proofs, expected \in Values :
          Verified("verify_packet_acknowledgement",
                   ProofAttests(height, proof, expected),
                   verify_packet_acknowledgement(client_state, height, proof, expected))

VerifyNextSequenceRecv ==
    /\ client_state # NoClient
    /\ \E height \in Heights, proof \in Proofs, expected \in Values :
          Verified("verify_next_sequence_recv",
                   ProofAttests(height, proof, expected),
                   verify_next_sequence_recv(client_state, height, proof, expected))

VerifyPacketReceiptAbsence ==
    /\ client_state # NoClient
    /\ \E height \in Heights, proof \in Proofs :
          Verified("verify_packet_receipt_absence",
                   ProofAttests(height, proof, Absent),
                   verify_packet_receipt_absence(client_state, height, proof))

VerifyOps == {"verify_client_consensus_state", "verify_connection_state",
              "verify_channel_state", "verify_client_full_state",
              "verify_packet_data", "verify_packet_acknowledgement",
              "verify_next_sequence_recv", "verify_packet_receipt_absence"}

UpdateOps == {"check_header_and_update_state", "verify_upgrade_and_update_state"}

NoEvent == [kind |-> "none"]

ClientIdle == client_state = NoClient /\ consensus_states = <<>> /\ result = NoResult
EventIdle == event = NoEvent /\ abci = NoEvent
CliIdle == pc = "idle" /\ env = <<>> /\ out = <<>>

Init == ClientIdle /\ EventIdle /\ CliIdle

Next ==
    \/ CreateClient
    \/ UpdateClient
    \/ ClientMisbehaviour
    \/ UpgradeClient
    \/ VerifyClientConsensusState
    \/ VerifyConnectionState
    \/ VerifyChannelState
    \/ VerifyClientFullState
    \/ VerifyPacketData
    \/ VerifyPacketAcknowledgement
    \/ VerifyNextSequenceRecv
    \/ VerifyPacketReceiptAbsence

Spec == Init /\ [][Next]_vars

----------------------------------------------------------------------------
(* ICS02 client events: crates/ibc/src/core/ics02_client/events.rs          *)
(* A Rust String is a sequence of one-character strings; the attribute keys *)
(* and the event kinds are compile-time constants and stay TLA+ strings.    *)

CLIENT_ID_ATTRIBUTE_KEY == "client_id"
CLIENT_TYPE_ATTRIBUTE_KEY == "client_type"
CONSENSUS_HEIGHT_ATTRIBUTE_KEY == "consensus_height"
CONSENSUS_HEIGHTS_ATTRIBUTE_KEY == "consensus_heights"
HEADER_ATTRIBUTE_KEY == "header"

DigitChars == <<"0", "1", "2", "3", "4", "5", "6", "7", "8", "9">>
HexChars == DigitChars \o <<"a", "b", "c", "d", "e", "f">>

\* u64 to_string: decimal digits, most significant first, no leading zero
RECURSIVE Decimal(_)
Decimal(n) ==
    IF n < 10 THEN <<DigitChars[n + 1]>>
    ELSE Decimal(n \div 10) \o <<DigitChars[(n % 10) + 1]>>

\* Height to text: "<revision_number>-<revision_height>"
HeightToString(h) ==
    Decimal(h.revision_number) \o <<"-">> \o Decimal(h.revision_height)

\* [String]::join(sep)
RECURSIVE Join(_, _)
Join(strs, sep) ==
    IF Len(strs) = 0 THEN <<>>
    ELSE IF Len(strs) = 1 THEN strs[1]
    ELSE strs[1] \o sep \o Join(Tail(strs), sep)

\* subtle_encoding::hex::encode: two lower-case hex digits per byte
RECURSIVE HexEncode(_)
HexEncode(bytes) ==
    IF Len(bytes) = 0 THEN <<>>
    ELSE <<HexChars[(bytes[1] \div 16) + 1], HexChars[(bytes[1] % 16) + 1]>>
         \o HexEncode(Tail(bytes))

\* the identifiers and client types events are built with
ClientIdText0 == <<"0", "7", "-", "g", "r", "a", "n", "d", "p", "a", "-", "0">>
ClientIdText1 == <<"0", "7", "-", "g", "r", "a", "n", "d", "p", "a", "-", "1">>
ClientIds == {ClientIdText0, ClientIdText1}
ClientTypes == {"Grandpa", "Tendermint"}

\* ClientId::as_str: the identifier's own text
ClientIdAsStr(client_id) == client_id

\* ClientType::as_str
ClientTypeAsStr(client_type) ==
    IF client_type = "Grandpa"
    THEN <<"0", "7", "-", "g", "r", "a", "n", "d", "p", "a">>
    ELSE <<"0", "7", "-", "t", "e", "n", "d", "e", "r", "m", "i", "n", "t">>

\* heights of events: those of the documented scenarios and one of revision 1
EventHeights == {Height(0, 100), Height(0, 101), Height(1, 7)}

\* lists of heights of length at most MaxHeights
HeightLists == UNION {[1..n -> EventHeights] : n \in 0..MaxHeights}

\* google.protobuf.Any headers: a type url and the raw value bytes
TypeUrls == {"/ibc.lightclients.grandpa.v1.Header", "/ibc.lightclients.tendermint.v1.Header"}
HeaderValues == {<<>>, <<10>>, <<171, 5>>}
AnyHeaders == [type_url : TypeUrls, value : HeaderValues]

\* the attribute structs
ClientIdAttribute(client_id) == [client_id |-> client_id]
ClientTypeAttribute(client_type) == [client_type |-> client_type]
ConsensusHeightAttribute(h) == [consensus_height |-> h]
ConsensusHeightsAttribute(hs) == [consensus_heights |-> hs]
HeaderAttribute(header) == [header |-> header]

\* abci::EventAttribute from a (key, value) pair
EventAttribute(key, value) == [key |-> key, value |-> value]

ClientIdAttributeToAbci(attr) ==
    EventAttribute(CLIENT_ID_ATTRIBUTE_KEY, ClientIdAsStr(attr.client_id))

ClientTypeAttributeToAbci(attr) ==
    EventAttribute(CLIENT_TYPE_ATTRIBUTE_KEY, ClientTypeAsStr(attr.client_type))

ConsensusHeightAttributeToAbci(attr) ==
    EventAttribute(CONSENSUS_HEIGHT_ATTRIBUTE_KEY, HeightToString(attr.consensus_height))

\* A slip of the join: every height is followed by a comma, the last one too.
ConsensusHeightsAttributeToAbci_trailing(attr) ==
    EventAttribute(CONSENSUS_HEIGHTS_ATTRIBUTE_KEY,
        Join([i \in 1..Len(attr.consensus_heights) |->
                 HeightToString(attr.consensus_heights[i]) \o <<",">>], <<>>))

ConsensusHeightsAttributeToAbci(attr) ==
    EventAttribute(CONSENSUS_HEIGHTS_ATTRIBUTE_KEY,
        Join([i \in 1..Len(attr.consensus_heights) |->
                 HeightToString(attr.consensus_heights[i])], <<",">>))

\* only the value bytes of the Any are encoded
HeaderAttributeToAbci(attr) ==
    EventAttribute(HEADER_ATTRIBUTE_KEY, HexEncode(attr.header.value))

\* IbcEventType::as_str
IbcEventTypeAsStr(t) ==
    CASE t = "CreateClient" -> "create_client"
      [] t = "UpdateClient" -> "update_client"
      [] t = "ClientMisbehaviour" -> "client_misbehaviour"
      [] t = "UpgradeClient" -> "upgrade_client"

CreateClientNew(client_id, client_type, consensus_height) ==
    [type |-> "CreateClient",
     client_id |-> ClientIdAttribute(client_id),
     client_type |-> ClientTypeAttribute(client_type),
     consensus_height |-> ConsensusHeightAttribute(consensus_height)]

UpdateClientNew(client_id, client_type, consensus_height, consensus_heights, header) ==
    [type |-> "UpdateClient",
     client_id |-> ClientIdAttribute(client_id),
     client_type |-> ClientTypeAttribute(client_type),
     consensus_height |-> ConsensusHeightAttribute(consensus_height),
     consensus_heights |-> ConsensusHeightsAttribute(consensus_heights),
     header |-> HeaderAttribute(header)]

ClientMisbehaviourNew(client_id, client_type) ==
    [type |-> "ClientMisbehaviour",
     client_id |-> ClientIdAttribute(client_id),
     client_type |-> ClientTypeAttribute(client_type)]

UpgradeClientNew(client_id, client_type, consensus_height) ==
    [type |-> "UpgradeClient",
     client_id |-> ClientIdAttribute(client_id),
     client_type |-> ClientTypeAttribute(client_type),
     consensus_height |-> ConsensusHeightAttribute(consensus_height)]

CreateClientToAbci(c) ==
    [kind |-> IbcEventTypeAsStr("CreateClient"),
     attributes |-> <<ClientIdAttributeToAbci(c.client_id),
                      ClientTypeAttributeToAbci(c.client_type),
                      ConsensusHeightAttributeToAbci(c.consensus_height)>>]

\* A slip of the conversion: the deprecated singular height is left out.
UpdateClientToAbci_no_singular(u) ==
    [kind |-> IbcEventTypeAsStr("UpdateClient"),
     attributes |-> <<ClientIdAttributeToAbci(u.client_id),
                      ClientTypeAttributeToAbci(u.client_type),
                      ConsensusHeightsAttributeToAbci(u.consensus_heights),
                      HeaderAttributeToAbci(u.header)>>]

UpdateClientToAbci(u) ==
    [kind |-> IbcEventTypeAsStr("UpdateClient"),
     attributes |-> <<ClientIdAttributeToAbci(u.client_id),
                      ClientTypeAttributeToAbci(u.client_type),
                      ConsensusHeightAttributeToAbci(u.consensus_height),
                      ConsensusHeightsAttributeToAbci(u.consensus_heights),
                      HeaderAttributeToAbci(u.header)>>]

\* A slip of the conversion: the two attributes are pushed in the other order.
ClientMisbehaviourToAbci_swapped(c) ==
    [kind |-> IbcEventTypeAsStr("ClientMisbehaviour"),
     attributes |-> <<ClientTypeAttributeToAbci(c.client_type),
                      ClientIdAttributeToAbci(c.client_id)>>]

ClientMisbehaviourToAbci(c) ==
    [kind |-> IbcEventTypeAsStr("ClientMisbehaviour"),
     attributes |-> <<ClientIdAttributeToAbci(c.client_id),
                      ClientTypeAttributeToAbci(c.client_type)>>]

UpgradeClientToAbci(u) ==
    [kind |-> IbcEventTypeAsStr("UpgradeClient"),
     attributes |-> <<ClientIdAttributeToAbci(u.client_id),
                      ClientTypeAttributeToAbci(u.client_type),
                      ConsensusHeightAttributeToAbci(u.consensus_height)>>]

(* Actions: an event is constructed, then converted into an abci::Event *)

NewCreateClient ==
    /\ \E id \in ClientIds, ty \in ClientTypes, h \in EventHeights :
          event' = CreateClientNew(id, ty, h)
    /\ abci' = NoEvent
    /\ UNCHANGED <<client_vars, cli_vars>>

NewUpdateClient ==
    /\ \E id \in ClientIds, ty \in ClientTypes, h \in EventHeights,
          hs \in HeightLists, header \in AnyHeaders :
          event' = UpdateClientNew(id, ty, h, hs, header)
    /\ abci' = NoEvent
    /\ UNCHANGED <<client_vars, cli_vars>>

NewClientMisbehaviour ==
    /\ \E id \in ClientIds, ty \in ClientTypes :
          event' = ClientMisbehaviourNew(id, ty)
    /\ abci' = NoEvent
    /\ UNCHANGED <<client_vars, cli_vars>>

NewUpgradeClient ==
    /\ \E id \in ClientIds, ty \in ClientTypes, h \in EventHeights :
          event' = UpgradeClientNew(id, ty, h)
    /\ abci' = NoEvent
    /\ UNCHANGED <<client_vars, cli_vars>>

Converted(e) ==
    /\ abci = NoEvent
    /\ abci' = e
    /\ UNCHANGED <<event, client_vars, cli_vars>>

CreateClientIntoAbci ==
    event # NoEvent /\ event.type = "CreateClient" /\ Converted(CreateClientToAbci(event))

UpdateClientIntoAbci ==
    event # NoEvent /\ event.type = "UpdateClient" /\ Converted(UpdateClientToAbci(event))

ClientMisbehaviourIntoAbci ==
    /\ event # NoEvent
    /\ event.type = "ClientMisbehaviour"
    /\ Converted(ClientMisbehaviourToAbci(event))

UpgradeClientIntoAbci ==
    event # NoEvent /\ event.type = "UpgradeClient" /\ Converted(UpgradeClientToAbci(event))

EventInit == ClientIdle /\ EventIdle /\ CliIdle

EventNext ==
    \/ NewCreateClient
    \/ NewUpdateClient
    \/ NewClientMisbehaviour
    \/ NewUpgradeClient
    \/ CreateClientIntoAbci
    \/ UpdateClientIntoAbci
    \/ ClientMisbehaviourIntoAbci
    \/ UpgradeClientIntoAbci

EventSpec == EventInit /\ [][EventNext]_vars

----------------------------------------------------------------------------
(* hermes query connections: relayer-cli/src/commands/query/connections.rs *)

ConnectionIds == {"connection-0", "connection-1"}

\* an identified connection: its identifier and its end
Connections == [connection_id : ConnectionIds, connection_end : {"open"}]

ConnectionLists == UNION {[1..n -> Connections] : n \in 0..MaxConnections}

QueryResults == {Ok(l) : l \in ConnectionLists} \cup {Err("rpc error"), Err("grpc error")}

\* what the configuration and the collaborators answer in one run
Envs == [chain_found : BOOLEAN,
         account_prefix : {"cosmos", "substrate", "osmo"},
         runtime_ok : BOOLEAN,
         bootstrap_ok : BOOLEAN,
         query : QueryResults]

Running == [how |-> "running", calls |-> <<>>]

\* Output::error(msg).exit(): the error is printed, the exit status is 1
OutputErrorExit(calls, msg) ==
    [how |-> "error", printed |-> msg, exit_code |-> 1, calls |-> calls]

\* Output::success(ids).exit(): the result is printed, the exit status is 0
OutputSuccessExit(calls, ids) ==
    [how |-> "success", printed |-> ids, exit_code |-> 0, calls |-> calls]

\* panic!, or unwrap() of an Err: the thread panics, the exit status is 101
Panic(calls, msg) ==
    [how |-> "panic", printed |-> msg, exit_code |-> 101, calls |-> calls]

\* exit_with_unrecoverable_error: the error is printed as an Output::error
exit_with_unrecoverable_error(calls, err) == OutputErrorExit(calls, err)

\* connections.into_iter().map(|c| c.connection_id).collect()
ConnectionIdsOf(connections) ==
    [i \in 1..Len(connections) |-> connections[i].connection_id]

\* config.find_chain(&self.chain_id)
FindChain ==
    /\ pc = "find_chain"
    /\ IF env.chain_found
          THEN pc' = "runtime" /\ out' = out
          ELSE /\ pc' = "exited"
               /\ out' = OutputErrorExit(out.calls, "chain not found in configuration file")
    /\ UNCHANGED <<env, client_vars, event_vars>>

\* TokioRuntime::new().unwrap()
NewRuntime ==
    /\ pc = "runtime"
    /\ IF env.runtime_ok
          THEN pc' = "dispatch" /\ out' = out
          ELSE pc' = "exited" /\ out' = Panic(out.calls, "unwrap on Err")
    /\ UNCHANGED <<env, client_vars, event_vars>>

\* match chain_type.as_str(), chain_type being the chain's account_prefix
Dispatch ==
    /\ pc = "dispatch"
    /\ CASE env.account_prefix = "cosmos" -> pc' = "cosmos_bootstrap" /\ out' = out
         [] env.account_prefix = "substrate" -> pc' = "substrate_bootstrap" /\ out' = out
         [] OTHER -> pc' = "exited" /\ out' = Panic(out.calls, "Unknown chain type")
    /\ UNCHANGED <<env, client_vars, event_vars>>

\* CosmosSdkChain::bootstrap(..).unwrap_or_else(exit_with_unrecoverable_error)
CosmosBootstrap ==
    /\ pc = "cosmos_bootstrap"
    /\ LET calls == Append(out.calls, "cosmos.bootstrap") IN
       IF env.bootstrap_ok
          THEN pc' = "cosmos_query" /\ out' = [out EXCEPT !.calls = calls]
          ELSE /\ pc' = "exited"
               /\ out' = exit_with_unrecoverable_error(calls, "bootstrap error")
    /\ UNCHANGED <<env, client_vars, event_vars>>

\* SubstrateChain::bootstrap(..).unwrap()
SubstrateBootstrap ==
    /\ pc = "substrate_bootstrap"
    /\ LET calls == Append(out.calls, "substrate.bootstrap") IN
       IF env.bootstrap_ok
          THEN pc' = "substrate_query" /\ out' = [out EXCEPT !.calls = calls]
          ELSE pc' = "exited" /\ out' = Panic(calls, "unwrap on Err")
    /\ UNCHANGED <<env, client_vars, event_vars>>

\* chain.query_connections(req) and the match on its result
QueryConnections(backend) ==
    LET calls == Append(out.calls, backend) IN
    /\ pc' = "exited"
    /\ out' = IF env.query.ok
                 THEN OutputSuccessExit(calls, ConnectionIdsOf(env.query.value))
                 ELSE OutputErrorExit(calls, env.query.error)
    /\ UNCHANGED <<env, client_vars, event_vars>>

CosmosQuery == pc = "cosmos_query" /\ QueryConnections("cosmos.query_connections")

SubstrateQuery == pc = "substrate_query" /\ QueryConnections("substrate.query_connections")

CliInit ==
    /\ ClientIdle
    /\ EventIdle
    /\ pc = "find_chain"
    /\ env \in Envs
    /\ out = Running

CliNext ==
    \/ FindChain
    \/ NewRuntime
    \/ Dispatch
    \/ CosmosBootstrap
    \/ SubstrateBootstrap
    \/ CosmosQuery
    \/ SubstrateQuery

CliSpec == CliInit /\ [][CliNext]_vars

----------------------------------------------------------------------------
(* Claims about the GRANDPA client and the client lifecycle (Spec) *)

Updated == result.op = "check_header_and_update_state"

\* C1: a successful UpdateClient leaves the client's latest height strictly
\* greater than the latest height it had before the call.
C1_UpdateStrictlyIncreasesHeight ==
    (Updated /\ result.ret.ok) =>
        HeightGT(client_state.latest_height, result.before.latest_height)

\* C2: check_header_and_update_state with a header whose height is not above
\* the trusted latest height returns HeaderVerificationFailed, never success.
C2_StaleHeaderRejected ==
    (Updated /\ ~HeightGT(result.header.height, result.before.latest_height)) =>
        result.ret = Err("HeaderVerificationFailed")

\* C3: every update call and every proof-verification call made on a Frozen
\* client returns ClientFrozen and does not succeed.
C3_FrozenRejectsEveryCall ==
    (result.op \in UpdateOps \cup VerifyOps /\ result.before.frozen) =>
        result.ret = Err("ClientFrozen")

\* C4: a proof-verification operation returns Ok only when the proof attests
\* the expected value (or absence) under the root committed at the height, and
\* returns ProofVerificationFailed when it does not.
C4_MismatchingProofRejected ==
    (result.op \in VerifyOps) =>
        /\ result.ret.ok => result.attests
        /\ ~result.attests => result.ret = Err("ProofVerificationFailed")

\* C6: a client that has a ClientState has a ConsensusState stored at that
\* ClientState's latest height, and a successful update returns, as one pair,
\* the ClientState at the header's height and the ConsensusState holding that
\* same header's root, which is what is then stored.
C6_ConsensusStateAtLatestHeight ==
    /\ client_state # NoClient =>
          client_state.latest_height \in DOMAIN consensus_states
    /\ (Updated /\ result.ret.ok) =>
          /\ client_state = result.ret.value[1]
          /\ client_state.latest_height = result.header.height
          /\ result.ret.value[2].root = result.header.root
          /\ consensus_states[client_state.latest_height] = result.ret.value[2]

\* C6 witness: an update to a height that had no consensus state before has
\* been stored beside the older one.
C6_Witness ==
    /\ Updated
    /\ result.ret.ok
    /\ HeightGT(client_state.latest_height, result.before.latest_height)
    /\ result.before.latest_height \in DOMAIN consensus_states
    /\ consensus_states[result.before.latest_height].root # result.header.root

----------------------------------------------------------------------------
(* Claims about the events (EventSpec) *)

KeySet(e) == {e.attributes[i].key : i \in 1..Len(e.attributes)}

\* the value of the attribute of abci with this key (the keys are distinct)
ValueOf(key) ==
    LET i == CHOOSE j \in 1..Len(abci.attributes) : abci.attributes[j].key = key
    IN abci.attributes[i].value

\* C7: a converted CreateClient event is of kind create_client and carries
\* exactly client_id, client_type, consensus_height; a converted UpdateClient
\* event is of kind update_client and carries exactly client_id, client_type,
\* consensus_height, consensus_heights, header, whatever the input values.
C7_EventCompleteness ==
    /\ (abci # NoEvent /\ event.type = "CreateClient") =>
          /\ abci.kind = "create_client"
          /\ Len(abci.attributes) = 3
          /\ KeySet(abci) = {"client_id", "client_type", "consensus_height"}
    /\ (abci # NoEvent /\ event.type = "UpdateClient") =>
          /\ abci.kind = "update_client"
          /\ Len(abci.attributes) = 5
          /\ KeySet(abci) = {"client_id", "client_type", "consensus_height",
                             "consensus_heights", "header"}

\* C7 witness: an UpdateClient event with an empty consensus_heights list has
\* been converted.
C7_Witness ==
    /\ abci # NoEvent
    /\ event.type = "UpdateClient"
    /\ event.consensus_heights.consensus_heights = <<>>

\* the pieces of s between the occurrences of the character sep (str::split)
RECURSIVE SplitOn(_, _)
SplitOn(s, sep) ==
    IF \A i \in 1..Len(s) : s[i] # sep THEN <<s>>
    ELSE LET k == CHOOSE i \in 1..Len(s) :
                     s[i] = sep /\ \A j \in 1..(i - 1) : s[j] # sep
         IN <<SubSeq(s, 1, k - 1)>> \o SplitOn(SubSeq(s, k + 1, Len(s)), sep)

DigitValue(c) == (CHOOSE i \in 1..10 : DigitChars[i] = c) - 1

\* s is the canonical decimal text of n: digits only, no leading zero
RECURSIVE DigitsValue(_)
DigitsValue(s) ==
    IF Len(s) = 0 THEN 0
    ELSE 10 * DigitsValue(SubSeq(s, 1, Len(s) - 1)) + DigitValue(s[Len(s)])

IsDecimalOf(s, n) ==
    /\ Len(s) >= 1
    /\ \A i \in 1..Len(s) : \E d \in 1..10 : DigitChars[d] = s[i]
    /\ (Len(s) > 1 => s[1] # "0")
    /\ DigitsValue(s) = n

\* s reads "<revision_number>-<revision_height>" of h
IsTextOf(s, h) ==
    LET parts == SplitOn(s, "-") IN
    /\ Len(parts) = 2
    /\ IsDecimalOf(parts[1], h.revision_number)
    /\ IsDecimalOf(parts[2], h.revision_height)

Text_0_100 == <<"0", "-", "1", "0", "0">>
Text_0_100_0_101 == <<"0", "-", "1", "0", "0", ",", "0", "-", "1", "0", "1">>

\* C8: the consensus_heights value is the heights' texts
\* "<revision_number>-<revision_height>" in list order, separated by single
\* commas, with no trailing comma; [(0,100),(0,101)] gives "0-100,0-101", a
\* one-element list its height's text alone, the singular (0,100) "0-100".
C8_ConsensusHeightsText ==
    (abci # NoEvent /\ event.type = "UpdateClient") =>
        LET hs == event.consensus_heights.consensus_heights
            v == ValueOf("consensus_heights")
            pieces == SplitOn(v, ",")
            single == ValueOf("consensus_height")
        IN /\ Len(hs) = 0 => v = <<>>
           /\ Len(hs) > 0 =>
                 /\ Len(pieces) = Len(hs)
                 /\ \A i \in 1..Len(hs) : IsTextOf(pieces[i], hs[i])
           /\ hs = <<Height(0, 100), Height(0, 101)>> => v = Text_0_100_0_101
           /\ hs = <<Height(0, 100)>> => v = Text_0_100
           /\ IsTextOf(single, event.consensus_height.consensus_height)
           /\ event.consensus_height.consensus_height = Height(0, 100) =>
                 single = Text_0_100

\* C8 witness: the list [(0,100),(0,101)] has been converted to "0-100,0-101".
C8_Witness ==
    /\ abci # NoEvent
    /\ event.type = "UpdateClient"
    /\ event.consensus_heights.consensus_heights = <<Height(0, 100), Height(0, 101)>>
    /\ ValueOf("consensus_heights") = Text_0_100_0_101

\* C9: the header attribute, a (type_url, value bytes) pair, is recovered in
\* full from its tagged key/value encoding: no other header has that encoding.
C9_HeaderRecoveredFromKeyValue ==
    (abci # NoEvent /\ event.type = "UpdateClient") =>
        \A h \in AnyHeaders :
            HeaderAttributeToAbci(HeaderAttribute(h)) = abci.attributes[5]
                => h = event.header.header

----------------------------------------------------------------------------
(* Claims about the query-connections command (CliSpec) *)

KnownBackend == env.account_prefix \in {"cosmos", "substrate"}

QueryCalls == {"cosmos.query_connections", "substrate.query_connections"}

IssuedNoQuery == \A i \in 1..Len(out.calls) : out.calls[i] \notin QueryCalls

\* C10: a finished run (its runtime built) ended in the outcome of its case:
\* chain not configured - an error is printed and no chain is contacted;
\* known backend - the connection identifiers in the order returned, or a
\* formatted error with non-zero exit on any failure of the backend, a failed
\* bootstrap included; unknown backend - a fatal error and no query.
C10_QueryConnectionsOutcome ==
    (pc = "exited" /\ (env.chain_found => env.runtime_ok)) =>
        IF ~env.chain_found
        THEN out.how = "error" /\ out.exit_code # 0 /\ out.calls = <<>>
        ELSE IF KnownBackend
        THEN IF env.bootstrap_ok /\ env.query.ok
             THEN /\ out.how = "success"
                  /\ out.printed = ConnectionIdsOf(env.query.value)
             ELSE out.how = "error" /\ out.exit_code # 0
        ELSE out.how = "panic" /\ IssuedNoQuery

----------------------------------------------------------------------------
(* Claims about the GRANDPA upgrade (Spec) *)

Upgraded == "verify_upgrade_and_update_state"

\* C11: verify_upgrade_and_update_state succeeds for every pair of upgrade
\* proofs and returns exactly the client state and consensus state it was
\* given, so an UpgradeClient step leaves the stored client state (latest
\* height, frozen status) and every stored consensus state unchanged.
C11_UpgradeReturnsItsInputs ==
    [][result'.op = Upgraded =>
          /\ result'.ret = Ok(<<client_state,
                                consensus_states[client_state.latest_height]>>)
          /\ client_state' = client_state
          /\ consensus_states' = consensus_states]_vars

\* C11 witness: an upgrade has been made on a frozen client that holds more
\* than one consensus state.
C11_Witness ==
    /\ result.op = Upgraded
    /\ result.ret.ok
    /\ client_state.frozen
    /\ Cardinality(DOMAIN consensus_states) >= 2

----------------------------------------------------------------------------
(* Claims about the four event kinds (EventSpec) *)

KeysOf(e) == [i \in 1..Len(e.attributes) |-> e.attributes[i].key]

HexValue(c) == (CHOOSE i \in 1..16 : HexChars[i] = c) - 1

\* the bytes a text of lower-case hex digit pairs stands for
RECURSIVE HexBytes(_)
HexBytes(s) ==
    IF Len(s) < 2 THEN <<>>
    ELSE <<16 * HexValue(s[1]) + HexValue(s[2])>> \o HexBytes(SubSeq(s, 3, Len(s)))

IsHexOf(s, bytes) ==
    /\ Len(s) = 2 * Len(bytes)
    /\ \A i \in 1..Len(s) : \E d \in 1..16 : HexChars[d] = s[i]
    /\ HexBytes(s) = bytes

Text_grandpa == <<"0", "7", "-", "g", "r", "a", "n", "d", "p", "a">>
Text_tendermint == <<"0", "7", "-", "t", "e", "n", "d", "e", "r", "m", "i", "n", "t">>

\* the first two attributes carry the identifier and the type the event was
\* constructed with
IdAndTypeCarried ==
    /\ abci.attributes[1].value = event.client_id.client_id
    /\ event.client_type.client_type = "Grandpa" =>
          abci.attributes[2].value = Text_grandpa
    /\ event.client_type.client_type = "Tendermint" =>
          abci.attributes[2].value = Text_tendermint

\* C12: a converted ClientMisbehaviour event is of kind client_misbehaviour
\* with exactly client_id, client_type in that order; a converted UpgradeClient
\* event is of kind upgrade_client with exactly client_id, client_type,
\* consensus_height in that order; for all four kinds the order is fixed and
\* each attribute's value is the text of the value the event was built with
\* (for header: the hex text of the header's value bytes).
C12_EventAttributesInOrder ==
    abci # NoEvent =>
        /\ IdAndTypeCarried
        /\ event.type = "ClientMisbehaviour" =>
              /\ abci.kind = "client_misbehaviour"
              /\ KeysOf(abci) = <<"client_id", "client_type">>
        /\ event.type = "UpgradeClient" =>
              /\ abci.kind = "upgrade_client"
              /\ KeysOf(abci) = <<"client_id", "client_type", "consensus_height">>
        /\ event.type = "CreateClient" =>
              /\ abci.kind = "create_client"
              /\ KeysOf(abci) = <<"client_id", "client_type", "consensus_height">>
        /\ event.type = "UpdateClient" =>
              /\ abci.kind = "update_client"
              /\ KeysOf(abci) = <<"client_id", "client_type", "consensus_height",
                                  "consensus_heights", "header">>
              /\ LET hs == event.consensus_heights.consensus_heights
                     pieces == SplitOn(abci.attributes[4].value, ",")
                 IN IF Len(hs) = 0 THEN abci.attributes[4].value = <<>>
                    ELSE /\ Len(pieces) = Len(hs)
                         /\ \A i \in 1..Len(hs) : IsTextOf(pieces[i], hs[i])
              /\ IsHexOf(abci.attributes[5].value, event.header.header.value)
        /\ event.type \in {"CreateClient", "UpdateClient", "UpgradeClient"} =>
              IsTextOf(abci.attributes[3].value,
                       event.consensus_height.consensus_height)

\* C12 witness: a ClientMisbehaviour event of a Tendermint client has been
\* converted into its two attributes.
C12_Witness ==
    /\ abci # NoEvent
    /\ event.type = "ClientMisbehaviour"
    /\ event.client_type.client_type = "Tendermint"
    /\ Len(abci.attributes) = 2

====
